---------------------------- MODULE Spec2Model ----------------------------
(***************************************************************************)
(* Write-command core of the mongo-c-driver                                *)
(* (src/src/mongoc/mongoc-write-command.c).                                *)
(*                                                                         *)
(* One behaviour builds one command buffer (init + appends), executes it   *)
(* once through _mongoc_write_command_execute against a node of the        *)
(* cluster, and finalizes the result accumulator.  The transport (send,    *)
(* recv_gle, command_simple, preselect, node capabilities) is the          *)
(* environment: its outcomes are drawn from small sets.                    *)
(*                                                                         *)
(* BSON documents are modelled by their byte length and by the fields the  *)
(* code inspects.  Positions of operations in the buffer are zero-based,   *)
(* as in the code; documents[p + 1] is the entry at position p.            *)
(***************************************************************************)
EXTENDS Integers, Sequences, FiniteSets, TLC

(***************************************************************************)
(* Bounds of the model.                                                    *)
(***************************************************************************)
\* largest number of entries an insert or a delete buffer is given
MaxDocs == 3
\* largest number of entries an update buffer is given
MaxUpdates == 2
\* largest size of an insert buffer that later append-insert calls extend
MaxAppendDocs == 2
\* calls of finalize on one accumulator
MaxCompletes == 2

(***************************************************************************)
(* Program constants.                                                      *)
(***************************************************************************)
\* #define WRITE_COMMAND_WIRE_VERSION 2
WRITE_COMMAND_WIRE_VERSION == 2
\* "max BSON object size + 16k - 2 bytes" in _mongoc_write_command_will_overflow
MaxCmdOverhead == 16382
\* BSON_ASSERT (documents [i]->len >= 5): the empty BSON document
EmptyBsonLen == 5
\* too_large_error: "MongoDB 2.6 uses code 2 for too large"
TooLargeCode == 2

MONGOC_WRITE_COMMAND_DELETE == "delete"
MONGOC_WRITE_COMMAND_INSERT == "insert"
MONGOC_WRITE_COMMAND_UPDATE == "update"

(***************************************************************************)
(* Inputs the caller and the environment choose from.                      *)
(***************************************************************************)
\* documents handed to init-insert / append-insert: BSON length and the
\* names of the top-level fields in document order (names are distinct)
InsertInputs ==
  { [len |-> 12,    fields |-> << "a" >>],
    [len |-> 17000, fields |-> << "a", "_id" >>] }

\* (selector, update, upsert, multi) handed to init-update / append-update.
\* u is the shape of the update document: "op" (first key starts with '$'),
\* "repl" (a replacement document with legal keys), "bad" (a replacement
\* document with a dotted or '$' key below the first one).  id tells which
\* of the update ("u") and the selector ("q") carries an "_id".
UpdateInputs ==
  { [q_len |-> 16, u_len |-> 16,    u |-> "op",   upsert |-> FALSE, multi |-> TRUE,  id |-> "none"],
    [q_len |-> 22, u_len |-> 16950, u |-> "repl", upsert |-> TRUE,  multi |-> FALSE, id |-> "u"],
    [q_len |-> 22, u_len |-> 16,    u |-> "bad",  upsert |-> TRUE,  multi |-> FALSE, id |-> "q"] }

\* selectors handed to init-delete / append-delete: BSON length
DeleteInputs == { [q_len |-> 5], [q_len |-> 16981] }

\* caller offsets.  The code never tests the offset; a value above every
\* buffer position tells a rewritten index from one that was not.
Offsets == {5}

\* write concerns: rejected by _mongoc_write_concern_is_valid, valid and
\* unacknowledged (w = 0), valid and acknowledged
WriteConcerns == {"invalid", "unacked", "acked"}

\* node capabilities the cluster reports (-1: node unknown)
MaxWireVersions == {-1, 1, 2}
MinWireVersions == {-1, 0, 2}
MaxBsonObjSizes == {100, 8200}
MaxWriteBatchSizes == {0, 1}
MaxMsgSizes == {40, 60, 1000}

\* error codes a server reports in writeErrors / getLastError
ServerCodes == {11000}

(***************************************************************************)
(* BSON arithmetic.                                                        *)
(***************************************************************************)
\* bson_uint32_to_string: the decimal string of i; the model keeps its length
KeyLen(i) == IF i < 10 THEN 1 ELSE IF i < 100 THEN 2 ELSE 3

\* bytes one element of type document adds to its parent: type byte, key,
\* NUL, the document
ElementLen(key, len) == 1 + KeyLen(key) + 1 + len

RECURSIVE ElementsLen(_)
ElementsLen(entries) ==
  IF entries = << >> THEN 0
  ELSE ElementLen(Head(entries).key, Head(entries).len) + ElementsLen(Tail(entries))

\* length of a BSON document/array holding these entries (4 length bytes,
\* elements, trailing NUL)
BsonLen(entries) == EmptyBsonLen + ElementsLen(entries)

Range(s) == { s[k] : k \in 1..Len(s) }

SeqsUpTo(S, n) == UNION { [1..k -> S] : k \in 0..n }

Max(a, b) == IF a >= b THEN a ELSE b

(***************************************************************************)
(* State.                                                                  *)
(***************************************************************************)
VARIABLES
  pc,        \* where the caller / the executor stands
  command,   \* mongoc_write_command_t
  result,    \* mongoc_write_result_t (ghost field "about" in its records)
  args,      \* arguments of _mongoc_write_command_execute
  node,      \* capabilities the executors have read from the cluster
  loc,       \* locals of the running executor
  wire,      \* history: every frame / command handed to the transport
  hist,      \* history: the executor chosen, failures seen so far, the
             \* parity of the passes through a label "again", the write
             \* concern error of the last reply that carried one, the
             \* calls of _mongoc_client_recv_gle made and the offsets the
             \* getLastError documents were merged at
  out        \* what _mongoc_write_result_complete returned

vars == << pc, command, result, args, node, loc, wire, hist, out >>

\* a capability no executor has asked the cluster for yet
NotRead == 0 - 2

NoCommand ==
  [ type |-> "none", ordered |-> FALSE, flag |-> FALSE,
    documents |-> << >>, n_documents |-> 0 ]

NoError == [ domain |-> "", code |-> "" ]

\* _mongoc_write_result_init: memset 0 and three empty documents.  lacking
\* (ghost) names the merges that were given a reply without an int32
\* nModified: "command" for _mongoc_write_result_merge, "legacy" for
\* _mongoc_write_result_merge_legacy
mongoc_write_result_init ==
  [ nInserted |-> 0, nMatched |-> 0, nModified |-> 0, nRemoved |-> 0,
    nUpserted |-> 0, upsert_append_count |-> 0,
    upserted |-> << >>, writeErrors |-> << >>, writeConcernError |-> << >>,
    failed |-> FALSE, omit_nModified |-> FALSE, error |-> NoError,
    lacking |-> {} ]

NoArgs == [ write_concern |-> "acked", offset |-> 0 ]

NoNode ==
  [ max_wire_version |-> NotRead, min_wire_version |-> NotRead,
    max_bson_obj_size |-> NotRead, max_write_batch_size |-> NotRead,
    max_msg_size |-> NotRead ]

\* gle and merged (ghost): the getLastError document the update executor
\* received last and the document it handed to the merge
NoLoc ==
  [ iter |-> 0, offset |-> 0, current_offset |-> 0, index |-> 0,
    affected |-> 0, gle |-> << >>, merged |-> << >> ]

NoHist ==
  [ path |-> "none", failed_ops |-> {}, too_large |-> {},
    transport_failed |-> FALSE, preselect_failed |-> FALSE,
    attempted |-> {}, passes |-> 0, last_wce |-> << >>,
    recv |-> 0, merged_at |-> << >> ]

NoOut ==
  [ called |-> FALSE, calls |-> 0, ret |-> FALSE, bson |-> << >>,
    error |-> NoError ]

Init ==
  /\ pc = "new"
  /\ command = NoCommand
  /\ result = mongoc_write_result_init
  /\ args = NoArgs
  /\ node = NoNode
  /\ loc = NoLoc
  /\ wire = << >>
  /\ hist = NoHist
  /\ out = NoOut

(***************************************************************************)
(* Command Buffer                                                          *)
(***************************************************************************)
\* bytes BSON_APPEND_OID (&tmp, "_id", &oid) adds: type, "_id", NUL, 12
OidElementLen == 17

\* a variant of InsertEntry that puts the generated _id after the
\* document's own fields
InsertEntryIdLast(i, doc) ==
  IF ~(\E k \in 1..Len(doc.fields) : doc.fields[k] = "_id")
    THEN [ key |-> i, len |-> doc.len + OidElementLen,
           fields |-> doc.fields \o << "_id" >>, orig |-> doc.fields ]
    ELSE [ key |-> i, len |-> doc.len, fields |-> doc.fields,
           orig |-> doc.fields ]

\* the entry _mongoc_write_command_insert_append stores for documents[i]:
\* the document itself when bson_iter_init_find finds "_id" in it, else
\* {_id: <new oid>} ++ document (orig remembers the caller's field list)
InsertEntry(i, doc) ==
  IF ~(\E k \in 1..Len(doc.fields) : doc.fields[k] = "_id")
    THEN [ key |-> i, len |-> doc.len + OidElementLen,
           fields |-> << "_id" >> \o doc.fields, orig |-> doc.fields ]
    ELSE [ key |-> i, len |-> doc.len, fields |-> doc.fields,
           orig |-> doc.fields ]

\* _mongoc_write_command_insert_append: the key of documents[i] is i
mongoc_write_command_insert_append(cmd, documents) ==
  [ cmd EXCEPT
      !.documents = @ \o [ i \in 1..Len(documents) |-> InsertEntry(i - 1, documents[i]) ],
      !.n_documents = @ + Len(documents) ]

\* {q: selector, u: update, upsert: bool, multi: bool}
UpdateEntry(key, in) ==
  [ key |-> key, len |-> in.q_len + in.u_len + 28,
    u |-> in.u, upsert |-> in.upsert, multi |-> in.multi, id |-> in.id ]

\* _mongoc_write_command_update_append
mongoc_write_command_update_append(cmd, in) ==
  [ cmd EXCEPT
      !.documents = Append(@, UpdateEntry(cmd.n_documents, in)),
      !.n_documents = @ + 1 ]

\* {q: selector, limit: multi ? 0 : 1}
DeleteEntry(key, in, multi) ==
  [ key |-> key, len |-> in.q_len + 19, limit |-> IF multi THEN 0 ELSE 1 ]

\* _mongoc_write_command_delete_append
mongoc_write_command_delete_append(cmd, in) ==
  [ cmd EXCEPT
      !.documents = Append(@, DeleteEntry(cmd.n_documents, in, cmd.flag)),
      !.n_documents = @ + 1 ]

\* _mongoc_write_command_init_insert; flag is u.insert.allow_bulk_op_insert
mongoc_write_command_init_insert ==
  /\ pc = "new"
  /\ \E documents \in SeqsUpTo(InsertInputs, MaxDocs), ordered \in BOOLEAN,
        allow_bulk_op_insert \in BOOLEAN :
       command' =
         LET c == [ type |-> MONGOC_WRITE_COMMAND_INSERT, ordered |-> ordered,
                    flag |-> allow_bulk_op_insert, documents |-> << >>,
                    n_documents |-> 0 ]
         IN IF Len(documents) # 0
              THEN mongoc_write_command_insert_append(c, documents)
              ELSE c
  /\ pc' = "built"
  /\ UNCHANGED << result, args, node, loc, wire, hist, out >>

\* _mongoc_write_command_init_delete; flag is u.delete_.multi
mongoc_write_command_init_delete ==
  /\ pc = "new"
  /\ \E selector \in DeleteInputs, multi \in BOOLEAN, ordered \in BOOLEAN :
       command' =
         mongoc_write_command_delete_append(
           [ type |-> MONGOC_WRITE_COMMAND_DELETE, ordered |-> ordered,
             flag |-> multi, documents |-> << >>, n_documents |-> 0 ],
           selector)
  /\ pc' = "built"
  /\ UNCHANGED << result, args, node, loc, wire, hist, out >>

\* _mongoc_write_command_init_update
mongoc_write_command_init_update ==
  /\ pc = "new"
  /\ \E in \in UpdateInputs, ordered \in BOOLEAN :
       command' =
         mongoc_write_command_update_append(
           [ type |-> MONGOC_WRITE_COMMAND_UPDATE, ordered |-> ordered,
             flag |-> FALSE, documents |-> << >>, n_documents |-> 0 ],
           in)
  /\ pc' = "built"
  /\ UNCHANGED << result, args, node, loc, wire, hist, out >>

\* a later _mongoc_write_command_insert_append on a built buffer
AppendInsert ==
  /\ pc = "built"
  /\ command.type = MONGOC_WRITE_COMMAND_INSERT
  /\ \E documents \in SeqsUpTo(InsertInputs, MaxDocs) :
       /\ Len(documents) >= 1
       /\ command.n_documents + Len(documents) <= MaxAppendDocs
       /\ command' = mongoc_write_command_insert_append(command, documents)
  /\ UNCHANGED << pc, result, args, node, loc, wire, hist, out >>

\* a later _mongoc_write_command_update_append
AppendUpdate ==
  /\ pc = "built"
  /\ command.type = MONGOC_WRITE_COMMAND_UPDATE
  /\ command.n_documents < MaxUpdates
  /\ \E in \in UpdateInputs :
       command' = mongoc_write_command_update_append(command, in)
  /\ UNCHANGED << pc, result, args, node, loc, wire, hist, out >>

\* a later _mongoc_write_command_delete_append
AppendDelete ==
  /\ pc = "built"
  /\ command.type = MONGOC_WRITE_COMMAND_DELETE
  /\ command.n_documents < MaxDocs
  /\ \E selector \in DeleteInputs :
       command' = mongoc_write_command_delete_append(command, selector)
  /\ UNCHANGED << pc, result, args, node, loc, wire, hist, out >>

(***************************************************************************)
(* Result Accumulator                                                      *)
(***************************************************************************)
\* bson_set_error (error, domain, code, ...); the message is not modelled
SetError(domain, code) == [ domain |-> domain, code |-> code ]

\* an optional field of a reply is << >> (absent) or << value >>
Opt(S) == { << >> } \cup { << v >> : v \in S }
Has(f) == f # << >>
Val(f, default) == IF f = << >> THEN default ELSE f[1]

\* a variant that files the record under the operation's index instead of
\* the append count: C32 does not hold of it
AppendUpsertKeyedByIndex(res, idx, value) ==
  [ res EXCEPT
      !.upserted = Append(@, [ key |-> idx, index |-> idx, id |-> value ]),
      !.upsert_append_count = @ + 1 ]

\* _mongoc_write_result_append_upsert: {index: idx, _id: value} under key
\* upsert_append_count
mongoc_write_result_append_upsert(res, idx, value) ==
  [ res EXCEPT
      !.upserted = Append(@, [ key |-> res.upsert_append_count,
                               index |-> idx, id |-> value ]),
      !.upsert_append_count = @ + 1 ]

\* _mongoc_write_result_merge_arrays: every document of the reply's array
\* is copied to dest under the next key, its "index" rewritten to
\* index + offset and its other fields kept
mongoc_write_result_merge_arrays(offset, dest, items) ==
  dest \o [ k \in 1..Len(items) |->
              [ items[k] EXCEPT !.index = items[k].index + offset ] ]

\* an item of a reply's "upserted" array is a record; one that lacks the
\* int32 "index" or the "_id" lacks that field here
HasIndexAndId(item) == "index" \in DOMAIN item /\ "id" \in DOMAIN item

RECURSIVE AppendUpserts(_, _, _)
\* the while loop over the reply's "upserted" array in
\* _mongoc_write_result_merge: an item without "index" or "_id" is skipped
AppendUpserts(res, offset, items) ==
  IF items = << >> THEN res
  ELSE AppendUpserts(
         IF HasIndexAndId(Head(items))
           THEN mongoc_write_result_append_upsert(res, offset + Head(items).index,
                                                  Head(items).id)
           ELSE res,
         offset, Tail(items))

\* a variant without BSON_MAX: C23 does not hold of it
MatchedBesideUpsertsUnclamped(affected, n_upserted) == affected - n_upserted

\* what a reply with an "upserted" field adds to nMatched (line 1286)
MatchedBesideUpserts(affected, n_upserted) == Max(0, affected - n_upserted)

\* a variant that leaves the failed flag to the executor: C18 does not hold
\* of it
MergeFailedNever(res, reply) == res

\* a reply whose writeErrors array holds an item marks the accumulator
\* failed (lines 1241-1246)
MergeFailed(res, reply) ==
  [ res EXCEPT !.failed = @ \/ reply.writeErrors # << >> ]

\* a variant in which the latest update reply decides: C17 does not hold of
\* it
MergeModifiedLatestWins(res, reply) ==
  IF Has(reply.nModified)
    THEN [ res EXCEPT !.nModified = @ + reply.nModified[1],
                      !.omit_nModified = FALSE ]
    ELSE [ res EXCEPT !.omit_nModified = TRUE ]

\* a variant that counts what it is given and never gives up the count:
\* C16 does not hold of it
MergeModifiedKeepingCount(res, reply) ==
  [ res EXCEPT !.nModified = @ + Val(reply.nModified, 0) ]

\* SERVER-13001: nModified of an update reply is added when it is an int32,
\* else the count is omitted for good
MergeModified(res, reply) ==
  IF Has(reply.nModified)
    THEN [ res EXCEPT !.nModified = @ + reply.nModified[1] ]
    ELSE [ res EXCEPT !.omit_nModified = TRUE ]

\* _mongoc_write_result_merge
mongoc_write_result_merge(res, cmd, reply, offset) ==
  LET affected == Val(reply.n, 0)
      r0 == [ res EXCEPT !.lacking = @ \cup (IF Has(reply.nModified) THEN {}
                                             ELSE { "command" }) ]
      r1 == MergeFailed(r0, reply)
      \* n_upserted++ beside every append of the loop
      n_upserted == Cardinality({ k \in 1..Len(reply.upserted.items) :
                                   HasIndexAndId(reply.upserted.items[k]) })
      r2 ==
        CASE cmd.type = MONGOC_WRITE_COMMAND_INSERT ->
               [ r1 EXCEPT !.nInserted = @ + affected ]
          [] cmd.type = MONGOC_WRITE_COMMAND_DELETE ->
               [ r1 EXCEPT !.nRemoved = @ + affected ]
          [] cmd.type = MONGOC_WRITE_COMMAND_UPDATE ->
               LET u == IF reply.upserted.present
                          THEN [ AppendUpserts(r1, offset, reply.upserted.items)
                                   EXCEPT !.nUpserted = @ + n_upserted,
                                          !.nMatched = @ + MatchedBesideUpserts(affected, n_upserted) ]
                          ELSE [ r1 EXCEPT !.nMatched = @ + affected ]
               IN MergeModified(u, reply)
      r3 == [ r2 EXCEPT !.writeErrors =
                mongoc_write_result_merge_arrays(offset, @, reply.writeErrors) ]
  IN \* bson_concat (&result->writeConcernError, &write_concern_error)
     [ r3 EXCEPT !.writeConcernError = @ \o reply.writeConcernError ]

RECURSIVE AppendLegacyUpserts(_, _, _, _)
\* the while loop over an "upserted" array in
\* _mongoc_write_result_merge_legacy: an item without "_id" is skipped
AppendLegacyUpserts(res, offset, upsert_idx, items) ==
  IF items = << >> THEN res
  ELSE IF "id" \in DOMAIN Head(items)
    THEN AppendLegacyUpserts(
           mongoc_write_result_append_upsert(res, offset + upsert_idx, Head(items).id),
           offset, upsert_idx + 1, Tail(items))
    ELSE AppendLegacyUpserts(res, offset, upsert_idx, Tail(items))

\* a variant that takes any reply with updatedExisting false for an upsert:
\* C24 does not hold of it
CountsAsUpsertWhateverN(n, reply) == reply.updatedExisting = << FALSE >>

\* the third branch of the update case (lines 1141-1144): n is 1 and
\* updatedExisting is a bool and false
CountsAsUpsert(n, reply) == n = 1 /\ reply.updatedExisting = << FALSE >>

\* _mongoc_write_result_merge_legacy
mongoc_write_result_merge_legacy(res, cmd, reply, offset) ==
  LET n == Val(reply.n, 0)
      code == Val(reply.code, 0)
      r1 == IF code # 0 /\ Has(reply.err)
              THEN [ res EXCEPT
                       !.error = SetError("COLLECTION", ToString(code)),
                       !.failed = TRUE,
                       !.writeErrors =
                          mongoc_write_result_merge_arrays(offset, @,
                            << [ index |-> 0, code |-> code,
                                 errmsg |-> reply.err[1],
                                 about |-> reply.about ] >>) ]
              ELSE res
      r2 ==
        CASE cmd.type = MONGOC_WRITE_COMMAND_INSERT ->
               [ r1 EXCEPT !.nInserted = @ + n ]
          [] cmd.type = MONGOC_WRITE_COMMAND_DELETE ->
               [ r1 EXCEPT !.nRemoved = @ + n ]
          [] cmd.type = MONGOC_WRITE_COMMAND_UPDATE ->
               IF reply.upserted.shape = "scalar"
                 THEN mongoc_write_result_append_upsert(
                        [ r1 EXCEPT !.nUpserted = @ + n ], offset,
                        reply.upserted.items[1].id)
               ELSE IF reply.upserted.shape = "array"
                 THEN AppendLegacyUpserts([ r1 EXCEPT !.nUpserted = @ + n ],
                                          offset, 0, reply.upserted.items)
               ELSE IF CountsAsUpsert(n, reply)
                 THEN [ r1 EXCEPT !.nUpserted = @ + n ]
               ELSE [ r1 EXCEPT !.nMatched = @ + n ]
  IN [ r2 EXCEPT !.omit_nModified = TRUE,
                 !.lacking = @ \cup { "legacy" } ]

(***************************************************************************)
(* Transport and server (the environment)                                  *)
(***************************************************************************)
\* _mongoc_write_concern_needs_gle
mongoc_write_concern_needs_gle(wc) == wc = "acked"

\* _mongoc_write_concern_is_valid
mongoc_write_concern_is_valid(wc) == wc # "invalid"

\* the error record the transport leaves after a failed send / receive /
\* preselect
TransportError == SetError("CLIENT", "transport")

RECURSIVE SortedSeq(_)
SortedSeq(S) ==
  IF S = {} THEN << >>
  ELSE LET m == CHOOSE x \in S : \A y \in S : x <= y
       IN << m >> \o SortedSeq(S \ {m})

\* the reply _mongoc_client_command_simple_with_hint leaves when it fails
EmptyReply ==
  [ n |-> << >>, writeErrors |-> << >>,
    upserted |-> [ present |-> FALSE, items |-> << >> ],
    nModified |-> << >>, writeConcernError |-> << >> ]

\* Replies of a server to a write command carrying the entries at buffer
\* positions ops (ops[j + 1] is the entry the server knows as index j).
\* The server applies the entries in order and reports at most one write
\* error, at index j (j = Len(ops): none), stopping there when the buffer
\* is ordered.  It upserts either none or all of the applied entries that
\* allow it (upserts), reports nModified or not (modified) and a
\* writeConcernError or not (wce).
ServerCommandReply(cmd, ops, j, code, upserts, modified, wce) ==
  LET i == Len(ops)
      Applied == IF j = i THEN 0..(i - 1)
                 ELSE IF cmd.ordered THEN 0..(j - 1)
                 ELSE (0..(i - 1)) \ {j}
      U == IF cmd.type = MONGOC_WRITE_COMMAND_UPDATE /\ upserts
             THEN { k \in Applied : cmd.documents[ops[k + 1] + 1].upsert }
             ELSE {}
  IN [ n |-> << Cardinality(Applied) >>,
       writeErrors |->
         IF j = i THEN << >>
         ELSE << [ index |-> j, code |-> code, errmsg |-> "server",
                   about |-> { ops[j + 1] } ] >>,
       upserted |->
         [ present |-> U # {},
           items |-> [ k \in 1..Cardinality(U) |->
                         [ index |-> SortedSeq(U)[k],
                           id |-> [ from |-> "server",
                                    op |-> ops[SortedSeq(U)[k] + 1] ] ] ] ],
       nModified |-> IF cmd.type = MONGOC_WRITE_COMMAND_UPDATE /\ modified
                       THEN << Cardinality(Applied) - Cardinality(U) >>
                       ELSE << >>,
       writeConcernError |-> IF wce THEN << [ code |-> 64, from |-> ops[1] ] >>
                             ELSE << >> ]

\* the replies the environment chooses from: a clean reply, one without
\* nModified, one with upserts, one per failing index (with the upserts of
\* the applied entries) and, when the write concern asks for an
\* acknowledgement, one with a writeConcernError
ServerCommandReplies(cmd, ops, write_concern) ==
  LET i == Len(ops)
  IN { ServerCommandReply(cmd, ops, i, 0, FALSE, TRUE, FALSE),
       ServerCommandReply(cmd, ops, i, 0, FALSE, FALSE, FALSE),
       ServerCommandReply(cmd, ops, i, 0, TRUE, TRUE, FALSE) }
     \cup (IF mongoc_write_concern_needs_gle(write_concern)
             THEN { ServerCommandReply(cmd, ops, i, 0, FALSE, TRUE, TRUE) }
             ELSE {})
     \cup { ServerCommandReply(cmd, ops, j, c, TRUE, TRUE, FALSE) :
              j \in 0..(i - 1), c \in ServerCodes }

(***************************************************************************)
(* Size Estimator                                                          *)
(***************************************************************************)
\* a variant that lets one operation more into a batch than the limit (the
\* comparison of line 601 taken as >): C5 does not hold of it
will_overflow_one_late(len_so_far, document_len, n_documents_written, max_bson_size, max_write_batch_size) ==
  LET max_cmd_size == max_bson_size + MaxCmdOverhead
  IN IF len_so_far + document_len > max_cmd_size
       THEN TRUE
     ELSE IF max_write_batch_size > 0 /\
             n_documents_written > max_write_batch_size
       THEN TRUE
     ELSE FALSE

\* A uint32_t is kept as its two 16-bit halves [hi, lo], so that values up
\* to 2^32 - 1 can be written; an int32_t is an integer of the model.
Half == 65536

\* the uint32_t an integer converts to (two's complement for a negative one)
ToU32(i) == [ hi |-> (i \div Half) % Half, lo |-> i % Half ]

\* uint32_t + uint32_t, modulo 2^32
AddU32(a, b) ==
  [ hi |-> (a.hi + b.hi + ((a.lo + b.lo) \div Half)) % Half,
    lo |-> (a.lo + b.lo) % Half ]

\* uint32_t > uint32_t
GtU32(a, b) == a.hi > b.hi \/ (a.hi = b.hi /\ a.lo > b.lo)

\* lines 597-604 of _mongoc_write_command_will_overflow on uint32_t
\* arguments, max_cmd_size and max_write_batch_size being int32_t: both
\* comparisons convert the int32_t operand to uint32_t
WillOverflowU32(len_so_far, document_len, n_documents_written, max_cmd_size, max_write_batch_size) ==
  IF GtU32(AddU32(len_so_far, document_len), ToU32(max_cmd_size))
    THEN TRUE
  ELSE IF max_write_batch_size > 0 /\
          ~GtU32(ToU32(max_write_batch_size), n_documents_written)
    THEN TRUE
  ELSE FALSE

\* _mongoc_write_command_will_overflow as the executors call it: with
\* lengths and counts far below 2^31 and positive limits, for which the
\* uint32_t sum and the unsigned comparisons of WillOverflowU32 are the
\* sum and the comparisons of the integers (WillOverflowAgrees)
mongoc_write_command_will_overflow(len_so_far, document_len, n_documents_written, max_bson_size, max_write_batch_size) ==
  LET max_cmd_size == max_bson_size + MaxCmdOverhead
  IN IF len_so_far + document_len > max_cmd_size
       THEN TRUE
     ELSE IF max_write_batch_size > 0 /\
             n_documents_written >= max_write_batch_size
       THEN TRUE
     ELSE FALSE

(***************************************************************************)
(* Dispatcher                                                              *)
(***************************************************************************)
\* codes[command->type] of _empty_error
EmptyErrorCode(type) ==
  CASE type = MONGOC_WRITE_COMMAND_DELETE -> "COLLECTION_DELETE_FAILED"
    [] type = MONGOC_WRITE_COMMAND_INSERT -> "COLLECTION_INSERT_FAILED"
    [] type = MONGOC_WRITE_COMMAND_UPDATE -> "COLLECTION_UPDATE_FAILED"

\* a variant that takes every node for a known one: C28 does not hold of
\* it
NodeUnknownNever(wire_version) == FALSE

\* the cluster knows no wire version of the node (max_wire_version == -1
\* at line 967, min_wire_version == -1 at line 820)
NodeUnknown(wire_version) == wire_version = -1

\* a variant that asks for a wire version above 2 (the comparison of line
\* 971 taken as >): C9 does not hold of it
ExecutorForNewerOnly(max_wire_version) ==
  IF max_wire_version > WRITE_COMMAND_WIRE_VERSION THEN "command" ELSE "legacy"

\* which executor _mongoc_write_command_execute calls for a node whose
\* max_wire_version is known
ExecutorFor(max_wire_version) ==
  IF max_wire_version >= WRITE_COMMAND_WIRE_VERSION THEN "command" ELSE "legacy"

\* _mongoc_write_command_execute up to the call of the executor
mongoc_write_command_execute ==
  /\ pc = "built"
  /\ \E write_concern \in WriteConcerns, hint \in BOOLEAN, offset \in Offsets :
       /\ args' = [ write_concern |-> write_concern, offset |-> offset ]
       /\ IF ~mongoc_write_concern_is_valid(write_concern)
            THEN /\ result' = [ result EXCEPT
                                  !.error = SetError("COMMAND", "COMMAND_INVALID_ARG"),
                                  !.failed = TRUE ]
                 /\ pc' = "done"
                 /\ UNCHANGED << node, hist >>
            ELSE \E preselected \in BOOLEAN :
                   IF ~hint /\ ~preselected
                     THEN /\ result' = [ result EXCEPT
                                           !.error = TransportError,
                                           !.failed = TRUE ]
                          /\ pc' = "done"
                          /\ hist' = [ hist EXCEPT !.preselect_failed = TRUE ]
                          /\ UNCHANGED node
                     ELSE \E max_wire_version \in MaxWireVersions :
                            /\ node' = [ node EXCEPT
                                           !.max_wire_version = max_wire_version ]
                            /\ UNCHANGED result
                            /\ IF NodeUnknown(max_wire_version)
                                 THEN pc' = "done" /\ UNCHANGED hist
                                 ELSE /\ pc' = ExecutorFor(max_wire_version)
                                      /\ hist' = [ hist EXCEPT !.path =
                                                     IF ExecutorFor(max_wire_version) = "legacy"
                                                       THEN "legacy" ELSE @ ]
  /\ UNCHANGED << command, loc, wire, out >>

(***************************************************************************)
(* Command Executor                                                        *)
(***************************************************************************)
\* the legacy executor is used instead of a command (lines 825-826)
UseLegacyOpcodes(min_wire_version, write_concern) ==
  min_wire_version = 0 /\ ~mongoc_write_concern_needs_gle(write_concern)

\* _mongoc_write_command from its entry to the label "again"
WriteCommandEnter ==
  /\ pc = "command"
  /\ \E min_wire_version \in MinWireVersions,
        max_bson_obj_size \in MaxBsonObjSizes,
        max_write_batch_size \in MaxWriteBatchSizes :
       IF NodeUnknown(min_wire_version)
         THEN /\ node' = [ node EXCEPT !.min_wire_version = min_wire_version ]
              /\ pc' = "done"
              /\ UNCHANGED << result, loc, hist >>
       ELSE IF UseLegacyOpcodes(min_wire_version, args.write_concern)
         THEN /\ node' = [ node EXCEPT !.min_wire_version = min_wire_version ]
              /\ pc' = "legacy"
              /\ hist' = [ hist EXCEPT !.path = "legacy" ]
              /\ UNCHANGED << result, loc >>
       ELSE /\ node' = [ node EXCEPT
                           !.min_wire_version = min_wire_version,
                           !.max_bson_obj_size = max_bson_obj_size,
                           !.max_write_batch_size = max_write_batch_size ]
            /\ hist' = [ hist EXCEPT !.path = "command" ]
            /\ IF command.n_documents = 0 \/ command.documents = << >>
                 THEN /\ result' = [ result EXCEPT
                                       !.error = SetError("COLLECTION",
                                                   EmptyErrorCode(command.type)),
                                       !.failed = TRUE ]
                      /\ pc' = "done"
                      /\ UNCHANGED loc
                 ELSE /\ pc' = "again"
                      /\ loc' = [ loc EXCEPT !.iter = 0, !.offset = args.offset ]
                      /\ UNCHANGED result
  /\ UNCHANGED << command, args, wire, out >>

RECURSIVE FillArray(_, _, _, _, _, _)
\* the do-while of the slow path (lines 864-890): iter is the position the
\* iterator stands on, i the number of items in the array, ar_len the
\* array's length so far
FillArray(documents, iter, i, ar_len, max_bson_obj_size, max_write_batch_size) ==
  LET len == documents[iter + 1].len
      key_len == KeyLen(i)
  IN IF mongoc_write_command_will_overflow(ar_len, key_len + len + 2, i,
                                           max_bson_obj_size,
                                           max_write_batch_size)
       THEN [ i |-> i, iter |-> iter, has_more |-> TRUE ]
     ELSE IF iter + 1 < Len(documents)
       THEN FillArray(documents, iter + 1, i + 1, ar_len + ElementLen(i, len),
                      max_bson_obj_size, max_write_batch_size)
     ELSE [ i |-> i + 1, iter |-> iter + 1, has_more |-> FALSE ]

\* the operations array one pass attaches to the command (lines 851-893):
\* the whole container, or the items from iter on that fit.  ops are the
\* buffer positions of the items, array the items as keyed in the command
\* (entry: the buffer's document the item is a copy of).
BuildArray(cmd, iter, max_bson_obj_size, max_write_batch_size) ==
  IF ~mongoc_write_command_will_overflow(0, BsonLen(cmd.documents),
                                         cmd.n_documents, max_bson_obj_size,
                                         max_write_batch_size)
    THEN [ i |-> cmd.n_documents, iter |-> iter, has_more |-> FALSE,
           fast |-> TRUE,
           ops |-> [ k \in 1..Len(cmd.documents) |-> k - 1 ],
           array |-> [ k \in 1..Len(cmd.documents) |->
                         [ key |-> cmd.documents[k].key,
                           len |-> cmd.documents[k].len,
                           entry |-> cmd.documents[k] ] ] ]
    ELSE LET f == FillArray(cmd.documents, iter, 0, EmptyBsonLen,
                            max_bson_obj_size, max_write_batch_size)
         IN [ i |-> f.i, iter |-> f.iter, has_more |-> f.has_more,
              fast |-> FALSE,
              ops |-> [ k \in 1..f.i |-> iter + k - 1 ],
              array |-> [ k \in 1..f.i |->
                            [ key |-> k - 1,
                              len |-> cmd.documents[iter + k].len,
                              entry |-> cmd.documents[iter + k] ] ] ]

\* offset += i (line 908)
\* a variant that advances by one command, not by its operations: C6 does
\* not hold of it
AdvanceOffsetByOne(offset, i) == offset + 1

AdvanceOffset(offset, i) == offset + i

\* if (has_more && (ret || !command->ordered)) GOTO (again) (line 914)
LoopAgain(has_more, ret, ordered) == has_more /\ (ret \/ ~ordered)

\* one pass of _mongoc_write_command from "again" to the test at line 914
WriteCommandAgain ==
  /\ pc = "again"
  /\ LET b == BuildArray(command, loc.iter, node.max_bson_obj_size,
                         node.max_write_batch_size)
     IN IF b.i = 0
          THEN \* too_large_error (error, i, len, max_bson_obj_size, NULL)
               /\ result' = [ result EXCEPT
                                !.error = SetError("BSON", ToString(TooLargeCode)),
                                !.failed = TRUE ]
               /\ hist' = [ hist EXCEPT
                              !.too_large = @ \cup { b.iter },
                              !.failed_ops = @ \cup { b.iter },
                              !.passes = (@ + 1) % 2 ]
               /\ loc' = [ loc EXCEPT !.iter = b.iter ]
               /\ pc' = IF LoopAgain(b.has_more, FALSE, command.ordered)
                          THEN "again" ELSE "done"
               /\ UNCHANGED wire
          ELSE \E ret \in BOOLEAN :
                 \E reply \in IF ret THEN ServerCommandReplies(command, b.ops, args.write_concern)
                              ELSE { EmptyReply } :
                   /\ wire' = Append(wire,
                        [ kind |-> "command", ops |-> b.ops, array |-> b.array,
                          fast |-> b.fast, offset |-> loc.offset, ok |-> ret,
                          flags |-> {},
                          after_failed |-> hist.failed_ops,
                          after_transport_failure |-> hist.transport_failed ])
                   /\ result' =
                        mongoc_write_result_merge(
                          IF ret THEN result
                          ELSE [ result EXCEPT !.failed = TRUE,
                                               !.error = TransportError ],
                          command, reply, loc.offset)
                   /\ loc' = [ loc EXCEPT !.iter = b.iter,
                                          !.offset = AdvanceOffset(@, b.i) ]
                   /\ hist' = [ hist EXCEPT
                        !.passes = (@ + 1) % 2,
                        !.last_wce = IF reply.writeConcernError # << >>
                                       THEN reply.writeConcernError ELSE @,
                        !.transport_failed = @ \/ ~ret,
                        !.attempted = @ \cup Range(b.ops),
                        !.failed_ops = @ \cup
                           (IF ret
                              THEN UNION { e.about : e \in Range(reply.writeErrors) }
                              ELSE Range(b.ops)) ]
                   /\ pc' = IF LoopAgain(b.has_more, ret, command.ordered)
                              THEN "again" ELSE "done"
  /\ UNCHANGED << command, args, node, out >>

(***************************************************************************)
(* Legacy Executor                                                         *)
(***************************************************************************)
\* a getLastError document; about (ghost) is the set of buffer positions
\* the acknowledged frame carried
Gle(n, err, code, shape, items, updatedExisting, about) ==
  [ n |-> n, err |-> err, code |-> code,
    upserted |-> [ shape |-> shape, items |-> items ],
    updatedExisting |-> updatedExisting, about |-> about ]

\* getLastError documents a server answers an OP_INSERT / OP_DELETE with
ServerWriteGles(about) ==
  { Gle(<< n >>, << >>, << >>, "none", << >>, << >>, about) : n \in {0, 1} }
  \cup { Gle(<< 0 >>, << "E" >>, << c >>, "none", << >>, << >>, about) :
           c \in ServerCodes }

\* getLastError documents a server answers the OP_UPDATE of entry p with
ServerUpdateGles(cmd, p) ==
  LET sid == << [ id |-> [ from |-> "server", op |-> p ] ] >>
  IN { Gle(<< 1 >>, << >>, << >>, "none", << >>, << TRUE >>, {p}),
       Gle(<< 0 >>, << >>, << >>, "none", << >>, << FALSE >>, {p}),
       Gle(<< >>, << >>, << >>, "none", << >>, << >>, {p}) }
     \cup { Gle(<< 0 >>, << "E" >>, << c >>, "none", << >>, << >>, {p}) :
              c \in ServerCodes }
     \cup (IF cmd.documents[p + 1].upsert
             THEN { Gle(<< 1 >>, << >>, << >>, "scalar", sid, << FALSE >>, {p}),
                    Gle(<< 1 >>, << >>, << >>, "array", sid, << FALSE >>, {p}),
                    Gle(<< 1 >>, << >>, << >>, "none", << >>, << FALSE >>, {p}),
                    Gle(<< >>, << >>, << >>, "none", << >>, << FALSE >>, {p}) }
             ELSE {})

\* the legacy executor of the buffer's kind is entered (gLegacyWriteOps)
LegacyLoop(type) ==
  CASE type = MONGOC_WRITE_COMMAND_DELETE -> "delete_loop"
    [] type = MONGOC_WRITE_COMMAND_INSERT -> "insert_again"
    [] type = MONGOC_WRITE_COMMAND_UPDATE -> "update_loop"

\* what the transport is handed; after_* (ghost) is what had failed before
Frame(kind, ops, flags, offset, ok, h) ==
  [ kind |-> kind, ops |-> ops, array |-> << >>, fast |-> FALSE,
    offset |-> offset, ok |-> ok, flags |-> flags,
    after_failed |-> h.failed_ops,
    after_transport_failure |-> h.transport_failed ]

\* calls of _mongoc_client_recv_gle after one _mongoc_client_sendv: one
\* when the send succeeded and the write concern needs an acknowledgement
RecvGleCalls(sent, acked) == IF sent /\ acked THEN 1 ELSE 0

\* a variant that merges every acknowledgement at the caller's offset:
\* C27 does not hold of it
NextOffsetStuck(offset) == offset

\* offset++ after the merge of an acknowledgement (lines 334, 759)
NextOffset(offset) == offset + 1

\* a variant with the two flag values exchanged: C30 does not hold of it
DeleteFlagsExchanged(cmd) == IF cmd.flag THEN { "SINGLE_REMOVE" } ELSE {}

\* rpc.delete_.flags (lines 315-316)
DeleteFlags(cmd) == IF cmd.flag THEN {} ELSE { "SINGLE_REMOVE" }

\* _mongoc_write_command_delete_legacy up to its do-while
DeleteLegacyEnter ==
  /\ pc = "legacy"
  /\ command.type = MONGOC_WRITE_COMMAND_DELETE
  /\ IF command.n_documents = 0 \/ command.documents = << >>
       THEN /\ result' = [ result EXCEPT
                             !.error = SetError("COLLECTION",
                                                "COLLECTION_DELETE_FAILED"),
                             !.failed = TRUE ]
            /\ pc' = "done"
            /\ UNCHANGED loc
       ELSE /\ pc' = LegacyLoop(command.type)
            /\ loc' = [ loc EXCEPT !.iter = 0, !.offset = args.offset ]
            /\ UNCHANGED result
  /\ UNCHANGED << command, args, node, wire, hist, out >>

\* does the do-while / while over the documents have a further entry
IterNext(cmd, iter) == iter + 1 < Len(cmd.documents)

\* one iteration of the do-while of _mongoc_write_command_delete_legacy
DeleteLegacyStep ==
  /\ pc = "delete_loop"
  /\ \E sent \in BOOLEAN, received \in BOOLEAN :
       LET p == loc.iter
           acked == mongoc_write_concern_needs_gle(args.write_concern)
       IN /\ wire' = Append(wire, Frame("OP_DELETE", << p >>,
                                        DeleteFlags(command), loc.offset,
                                        sent, hist))
          /\ IF ~sent \/ (acked /\ ~received)
               THEN /\ result' = [ result EXCEPT !.failed = TRUE,
                                                 !.error = TransportError ]
                    /\ hist' = [ hist EXCEPT !.transport_failed = TRUE,
                                             !.attempted = @ \cup {p},
                                             !.failed_ops = @ \cup {p},
                                             !.recv = @ + RecvGleCalls(sent, acked) ]
                    /\ pc' = "done"
                    /\ UNCHANGED loc
             ELSE IF ~acked
               THEN /\ hist' = [ hist EXCEPT !.attempted = @ \cup {p} ]
                    /\ loc' = [ loc EXCEPT !.iter = p + 1 ]
                    /\ pc' = IF IterNext(command, p) THEN "delete_loop" ELSE "done"
                    /\ UNCHANGED result
             ELSE \E gle \in ServerWriteGles({p}) :
                    /\ result' = mongoc_write_result_merge_legacy(
                                   result, command, gle, loc.offset)
                    /\ hist' = [ hist EXCEPT
                                   !.attempted = @ \cup {p},
                                   !.failed_ops = @ \cup
                                      (IF Has(gle.err) THEN {p} ELSE {}),
                                   !.recv = @ + RecvGleCalls(sent, acked),
                                   !.merged_at = Append(@, loc.offset) ]
                    /\ loc' = [ loc EXCEPT !.iter = p + 1,
                                           !.offset = NextOffset(@) ]
                    /\ pc' = IF IterNext(command, p) THEN "delete_loop" ELSE "done"
  /\ UNCHANGED << command, args, node, out >>

\* size at "again" (lines 453-458): sizeof (mongoc_rpc_header_t) + 4 +
\* strlen (database) + 1 + strlen (collection) + 1, for database "db" and
\* collection "c"
InsertFrameBase == 16 + 4 + 2 + 1 + 1 + 1

\* size > (max_msg_size - len) (line 486).  len is a uint32_t, so the
\* difference is taken modulo 2^32: when len exceeds max_msg_size it wraps
\* to a value above every size of the model.
MsgFull(size, max_msg_size, len) ==
  IF len > max_msg_size THEN FALSE ELSE size > max_msg_size - len

\* too_large_error with an err_doc: {index, err, code: 2}
TooLargeDoc(index) ==
  Gle(<< >>, << "too large" >>, << TooLargeCode >>, "none", << >>, << >>,
      { index })

\* a variant with the two flag values exchanged: C29 does not hold of it
InsertFlagsExchanged(cmd) == IF cmd.ordered THEN { "CONTINUE_ON_ERROR" } ELSE {}

\* rpc.insert.flags (lines 506-508)
InsertFlags(cmd) == IF cmd.ordered THEN {} ELSE { "CONTINUE_ON_ERROR" }

\* the index a document rejected as too large is merged at (line 478)
TooLargeOffset(offset, index) == offset + index

RECURSIVE InsertBatch(_, _, _, _, _, _)
\* the do-while of _mongoc_write_command_insert_legacy (lines 460-499).
\* st: iter / index (the document looked at), size, batch (the buffer
\* positions put in iov), res (the accumulator), rejected (the documents
\* found too large in this pass)
InsertBatch(cmd, st, offset, max_bson_obj_size, max_msg_size, singly) ==
  LET len == cmd.documents[st.iter + 1].len
      next(t) == IF IterNext(cmd, t.iter)
                   THEN InsertBatch(cmd, [ t EXCEPT !.iter = @ + 1, !.index = @ + 1 ],
                                    offset, max_bson_obj_size, max_msg_size, singly)
                   ELSE [ t EXCEPT !.iter = @ + 1, !.index = @ + 1 ]
  IN IF len > max_bson_obj_size
       THEN LET t == [ st EXCEPT
                         !.res = mongoc_write_result_merge_legacy(
                                   [ @ EXCEPT !.error =
                                       SetError("BSON", ToString(TooLargeCode)) ],
                                   cmd, TooLargeDoc(st.index),
                                   TooLargeOffset(offset, st.index)),
                         !.rejected = @ \cup { st.index } ]
            IN IF cmd.ordered THEN t ELSE next(t)
     ELSE IF (Len(st.batch) = 1 /\ singly) \/ MsgFull(st.size, max_msg_size, len)
       THEN [ st EXCEPT !.has_more = TRUE ]
     ELSE next([ st EXCEPT !.batch = Append(@, st.index), !.size = @ + len ])

\* a variant that counts an acknowledged batch as one document: C21 does
\* not hold of it
OverwriteNWithOne(gle, n_docs_in_batch) ==
  IF ~Has(gle.err) /\ gle.n = << 0 >>
    THEN [ gle EXCEPT !.n = << 1 >> ]
    ELSE gle

\* the "n" the executor puts into an acknowledgement that carries no err
\* and n == 0 (lines 537-542)
OverwriteN(gle, n_docs_in_batch) ==
  IF ~Has(gle.err) /\ gle.n = << 0 >>
    THEN [ gle EXCEPT !.n = << n_docs_in_batch >> ]
    ELSE gle

\* current_offset = offset + index (line 550)
NextCurrentOffset(offset, index) == offset + index

\* _mongoc_write_command_insert_legacy up to the label "again"
InsertLegacyEnter ==
  /\ pc = "legacy"
  /\ command.type = MONGOC_WRITE_COMMAND_INSERT
  /\ \E max_bson_obj_size \in MaxBsonObjSizes, max_msg_size \in MaxMsgSizes :
       IF command.n_documents = 0 \/ command.documents = << >>
         THEN /\ result' = [ result EXCEPT
                               !.error = SetError("COLLECTION",
                                                  "COLLECTION_INSERT_FAILED"),
                               !.failed = TRUE ]
              /\ pc' = "done"
              /\ UNCHANGED << loc, node >>
         ELSE /\ node' = [ node EXCEPT !.max_bson_obj_size = max_bson_obj_size,
                                       !.max_msg_size = max_msg_size ]
              /\ pc' = LegacyLoop(command.type)
              /\ loc' = [ loc EXCEPT !.iter = 0, !.index = 0,
                                     !.offset = args.offset,
                                     !.current_offset = args.offset ]
              /\ UNCHANGED result
  /\ UNCHANGED << command, args, wire, hist, out >>

\* one pass of _mongoc_write_command_insert_legacy from "again" to the
\* test of has_more at line 555
InsertLegacyAgain ==
  /\ pc = "insert_again"
  /\ LET b == InsertBatch(command,
                [ iter |-> loc.iter, index |-> loc.index,
                  size |-> InsertFrameBase, batch |-> << >>, res |-> result,
                  rejected |-> {}, has_more |-> FALSE ],
                loc.offset, node.max_bson_obj_size, node.max_msg_size,
                ~command.flag)
         acked == mongoc_write_concern_needs_gle(args.write_concern)
         h0 == [ hist EXCEPT !.passes = (@ + 1) % 2,
                             !.too_large = @ \cup b.rejected,
                             !.failed_ops = @ \cup b.rejected,
                             !.attempted = @ \cup b.rejected ]
         h1 == [ h0 EXCEPT !.attempted = @ \cup Range(b.batch) ]
         last == b.batch[Len(b.batch)]
     IN /\ pc' = IF b.has_more THEN "insert_again" ELSE "done"
        /\ IF b.batch = << >>
             THEN /\ result' = b.res
                  /\ hist' = h0
                  /\ loc' = [ loc EXCEPT !.iter = b.iter, !.index = b.index ]
                  /\ UNCHANGED wire
             ELSE \E sent \in BOOLEAN, received \in BOOLEAN :
                    /\ wire' = Append(wire, Frame("OP_INSERT", b.batch,
                                                  InsertFlags(command),
                                                  loc.current_offset, sent, h0))
                    /\ IF ~sent \/ (acked /\ ~received)
                         THEN /\ result' = [ b.res EXCEPT !.failed = TRUE,
                                                          !.error = TransportError ]
                              /\ hist' = [ h1 EXCEPT
                                             !.transport_failed = TRUE,
                                             !.failed_ops = @ \cup Range(b.batch),
                                             !.recv = @ + RecvGleCalls(sent, acked) ]
                              /\ loc' = [ loc EXCEPT !.iter = b.iter,
                                                     !.index = b.index ]
                       ELSE IF ~acked
                         THEN /\ result' = b.res
                              /\ hist' = h1
                              /\ loc' = [ loc EXCEPT !.iter = b.iter,
                                                     !.index = b.index ]
                       ELSE \E gle \in ServerWriteGles(Range(b.batch)) :
                              /\ gle.n = << 0 >>
                              /\ result' = mongoc_write_result_merge_legacy(
                                             b.res, command,
                                             OverwriteN(gle, Len(b.batch)),
                                             loc.current_offset)
                              /\ hist' = [ h1 EXCEPT
                                             !.failed_ops = @ \cup
                                               (IF Has(gle.err) THEN { last } ELSE {}),
                                             !.recv = @ + RecvGleCalls(sent, acked),
                                             !.merged_at = Append(@, loc.current_offset) ]
                              /\ loc' = [ loc EXCEPT
                                            !.iter = b.iter, !.index = b.index,
                                            !.current_offset =
                                               NextCurrentOffset(loc.offset, b.index) ]
  /\ UNCHANGED << command, args, node, out >>

\* the first key of the update document is not '$'-prefixed and
\* bson_validate rejects the document (lines 651-654)
UpdateRejected(entry) == entry.u = "bad"

\* rpc.update.flags (lines 701-712)
UpdateFlags(entry) ==
  (IF entry.multi THEN { "MULTI_UPDATE" } ELSE {})
  \cup (IF entry.upsert THEN { "UPSERT" } ELSE {})

\* is_upsert after the scan of the entry's keys (lines 707-713): set when
\* the key "upsert" is met, which every appended entry has
IsUpsert(entry) == TRUE

\* affected after the reply is read (lines 733-736): kept from the earlier
\* reply when this one holds no int32 "n"
Affected(affected, gle) == IF Has(gle.n) THEN gle.n[1] ELSE affected

\* CDRIVER-372 (lines 744-756): the reply with "upserted" appended from
\* the update document's or the selector's _id
BackfillUpserted(entry, p, affected, gle) ==
  IF /\ IsUpsert(entry)
     /\ affected # 0
     /\ gle.upserted.shape = "none"
     /\ gle.updatedExisting = << FALSE >>
     /\ entry.id \in { "u", "q" }
    THEN [ gle EXCEPT !.upserted =
             [ shape |-> "scalar",
               items |-> << [ id |-> [ from |-> entry.id, op |-> p ] ] >> ] ]
    ELSE gle

\* _mongoc_write_command_update_legacy up to its second loop: the scan
\* that validates every update document (lines 643-671)
UpdateLegacyEnter ==
  /\ pc = "legacy"
  /\ command.type = MONGOC_WRITE_COMMAND_UPDATE
  /\ IF \E e \in Range(command.documents) : UpdateRejected(e)
       THEN /\ result' = [ result EXCEPT
                             !.failed = TRUE,
                             !.error = SetError("BSON", "BSON_INVALID") ]
            /\ pc' = "done"
            /\ UNCHANGED loc
       ELSE /\ pc' = IF command.documents = << >> THEN "done"
                     ELSE LegacyLoop(command.type)
            /\ loc' = [ loc EXCEPT !.iter = 0, !.offset = args.offset,
                                   !.affected = 0 ]
            /\ UNCHANGED result
  /\ UNCHANGED << command, args, node, wire, hist, out >>

\* one iteration of the second while loop of
\* _mongoc_write_command_update_legacy (lines 676-762)
UpdateLegacyStep ==
  /\ pc = "update_loop"
  /\ \E sent \in BOOLEAN, received \in BOOLEAN :
       LET p == loc.iter
           entry == command.documents[p + 1]
           acked == mongoc_write_concern_needs_gle(args.write_concern)
       IN /\ wire' = Append(wire, Frame("OP_UPDATE", << p >>,
                                        UpdateFlags(entry), loc.offset,
                                        sent, hist))
          /\ IF ~sent \/ (acked /\ ~received)
               THEN /\ result' = [ result EXCEPT !.failed = TRUE,
                                                 !.error = TransportError ]
                    /\ hist' = [ hist EXCEPT !.transport_failed = TRUE,
                                             !.attempted = @ \cup {p},
                                             !.failed_ops = @ \cup {p},
                                             !.recv = @ + RecvGleCalls(sent, acked) ]
                    /\ pc' = "done"
                    /\ UNCHANGED loc
             ELSE IF ~acked
               THEN /\ hist' = [ hist EXCEPT !.attempted = @ \cup {p} ]
                    /\ loc' = [ loc EXCEPT !.iter = p + 1 ]
                    /\ pc' = IF IterNext(command, p) THEN "update_loop" ELSE "done"
                    /\ UNCHANGED result
             ELSE \E gle \in ServerUpdateGles(command, p) :
                    LET affected == Affected(loc.affected, gle)
                    IN /\ result' = mongoc_write_result_merge_legacy(
                                      result, command,
                                      BackfillUpserted(entry, p, affected, gle),
                                      loc.offset)
                       /\ hist' = [ hist EXCEPT
                                      !.attempted = @ \cup {p},
                                      !.failed_ops = @ \cup
                                         (IF Has(gle.err) THEN {p} ELSE {}),
                                      !.recv = @ + RecvGleCalls(sent, acked),
                                      !.merged_at = Append(@, loc.offset) ]
                       /\ loc' = [ loc EXCEPT
                                      !.iter = p + 1, !.offset = NextOffset(@),
                                      !.affected = affected,
                                      !.gle = << gle >>,
                                      !.merged = << BackfillUpserted(entry, p, affected, gle) >> ]
                       /\ pc' = IF IterNext(command, p) THEN "update_loop"
                                ELSE "done"
  /\ UNCHANGED << command, args, node, out >>

(***************************************************************************)
(* Finalization                                                            *)
(***************************************************************************)
\* the return value of _mongoc_write_result_complete (lines 1348-1350)
\* a variant that forgets the write concern error: C13 does not hold of it
CompleteRetIgnoringConcernError(res) ==
  ~res.failed /\ res.writeErrors = << >>

\* a variant that forgets the failed flag: C10 does not hold of it
CompleteRetIgnoringFailed(res) ==
  res.writeConcernError = << >> /\ res.writeErrors = << >>

CompleteRet(res) ==
  ~res.failed /\ res.writeConcernError = << >> /\ res.writeErrors = << >>

\* the document _mongoc_write_result_complete fills (lines 1352-1368)
CompleteBson(res) ==
  [ nInserted |-> res.nInserted,
    nMatched |-> res.nMatched,
    nModified |-> IF ~res.omit_nModified THEN << res.nModified >> ELSE << >>,
    nRemoved |-> res.nRemoved,
    nUpserted |-> res.nUpserted,
    upserted |-> IF res.upserted # << >> THEN << res.upserted >> ELSE << >>,
    writeErrors |-> res.writeErrors,
    writeConcernError |-> IF res.writeConcernError # << >>
                            THEN << res.writeConcernError >> ELSE << >> ]

\* the caller's error record (lines 1370-1390): a copy of result->error,
\* then the first write error's code and errmsg when both are set
CompleteError(res) ==
  IF ~CompleteRet(res) /\ res.writeErrors # << >>
     /\ res.writeErrors[1].code # 0
    THEN SetError("COMMAND", ToString(res.writeErrors[1].code))
    ELSE res.error

\* a variant that clears the failed flag once the outcome is reported: C14
\* does not hold of it
CompleteResultClearingFailed(res) == [ res EXCEPT !.failed = FALSE ]

\* the accumulator after _mongoc_write_result_complete: result is only read
\* (lines 1348-1387), no field of it is assigned
CompleteResult(res) == res

\* _mongoc_write_result_complete (result, bson, error), bson and error
\* fresh at each call; calls (ghost) counts the calls
mongoc_write_result_complete ==
  /\ pc = "done"
  /\ out.calls < MaxCompletes
  /\ out' = [ called |-> TRUE, calls |-> out.calls + 1,
              ret |-> CompleteRet(result),
              bson |-> CompleteBson(result), error |-> CompleteError(result) ]
  /\ result' = CompleteResult(result)
  /\ UNCHANGED << pc, command, args, node, loc, wire, hist >>

Next ==
  \/ mongoc_write_command_init_insert
  \/ mongoc_write_command_init_delete
  \/ mongoc_write_command_init_update
  \/ AppendInsert
  \/ AppendUpdate
  \/ AppendDelete
  \/ mongoc_write_command_execute
  \/ WriteCommandEnter
  \/ WriteCommandAgain
  \/ DeleteLegacyEnter
  \/ DeleteLegacyStep
  \/ InsertLegacyEnter
  \/ InsertLegacyAgain
  \/ UpdateLegacyEnter
  \/ UpdateLegacyStep
  \/ mongoc_write_result_complete

Spec == Init /\ [][Next]_vars

\* the caller and the executors are one sequential thread: whatever step is
\* possible is eventually taken
FairSpec == Spec /\ WF_vars(Next)

(***************************************************************************)
(* The merge routines and the size estimator called on their own, with     *)
(* arguments of every shape and width the routines tell apart.             *)
(***************************************************************************)
\* calls made in one run
MaxCalls == 2

\* items of an "upserted" array: with index and _id, without index,
\* without _id
UpsertedItems ==
  { [ index |-> 1, id |-> [ from |-> "server", op |-> 1 ] ],
    [ id |-> [ from |-> "server", op |-> 0 ] ],
    [ index |-> 0 ] }

\* what a reply may carry as "upserted": nothing, or an array of up to two
\* items (an "upserted" that is no array behaves as the empty array)
UpsertedFields ==
  { [ present |-> FALSE, items |-> << >> ] }
  \cup { [ present |-> TRUE, items |-> it ] : it \in SeqsUpTo(UpsertedItems, 2) }

\* replies handed to _mongoc_write_result_merge
MergeReplies ==
  { [ n |-> n, writeErrors |-> << >>, upserted |-> u, nModified |-> m,
      writeConcernError |-> << >> ] :
      n \in Opt({0, 2}), u \in UpsertedFields, m \in Opt({1}) }

\* the buffers the merges are called for
MergeCommands ==
  { mongoc_write_command_update_append(
      [ type |-> MONGOC_WRITE_COMMAND_UPDATE, ordered |-> TRUE,
        flag |-> FALSE, documents |-> << >>, n_documents |-> 0 ], in) :
      in \in { i \in UpdateInputs : i.u = "op" } }
  \cup { mongoc_write_command_delete_append(
           [ type |-> MONGOC_WRITE_COMMAND_DELETE, ordered |-> TRUE,
             flag |-> FALSE, documents |-> << >>, n_documents |-> 0 ], in) :
           in \in { i \in DeleteInputs : i.q_len = 5 } }

NoCall == [ fn |-> "none", calls |-> 0 ]

\* a run calls the merges on one accumulator (pc = "merge"), or the
\* estimator, which keeps no state, once (pc = "estimate")
CallInit ==
  /\ pc \in { "merge", "estimate" }
  /\ command \in MergeCommands
  /\ result = mongoc_write_result_init
  /\ args = NoArgs
  /\ node = NoNode
  /\ loc = NoCall
  /\ wire = << >>
  /\ hist = NoHist
  /\ out = NoOut

\* one call of _mongoc_write_result_merge; loc keeps the arguments and the
\* accumulator as it was
CallMerge ==
  /\ pc = "merge"
  /\ loc.calls < MaxCalls
  /\ \E reply \in MergeReplies, offset \in Offsets :
       /\ result' = mongoc_write_result_merge(result, command, reply, offset)
       /\ loc' = [ fn |-> "merge", calls |-> loc.calls + 1, reply |-> reply,
                   offset |-> offset, before |-> result ]
  /\ UNCHANGED << pc, command, args, node, wire, hist, out >>

\* getLastError documents handed to _mongoc_write_result_merge_legacy:
\* "upserted" absent, a scalar, or an array of up to two items of which
\* some lack the _id
LegacyReplies ==
  { Gle(n, << >>, << >>, "none", << >>, ue, {}) :
      n \in Opt({1, 2}), ue \in Opt(BOOLEAN) }
  \cup { Gle(n, << >>, << >>, "scalar",
             << [ id |-> [ from |-> "server", op |-> 0 ] ] >>, ue, {}) :
           n \in Opt({1, 2}), ue \in Opt(BOOLEAN) }
  \cup { Gle(n, << >>, << >>, "array", it, ue, {}) :
           n \in Opt({1, 2}), ue \in Opt(BOOLEAN),
           it \in SeqsUpTo({ i \in UpsertedItems : "index" \in DOMAIN i }, 2) }
  \cup { Gle(<< 0 >>, << "E" >>, << c >>, "none", << >>, << >>, {}) :
           c \in ServerCodes }

\* one call of _mongoc_write_result_merge_legacy
CallMergeLegacy ==
  /\ pc = "merge"
  /\ loc.calls < MaxCalls
  /\ \E reply \in LegacyReplies, offset \in Offsets :
       /\ result' = mongoc_write_result_merge_legacy(result, command, reply, offset)
       /\ loc' = [ fn |-> "merge_legacy", calls |-> loc.calls + 1,
                   reply |-> reply, offset |-> offset, before |-> result ]
  /\ UNCHANGED << pc, command, args, node, wire, hist, out >>

\* uint32_t arguments of the size estimator: small, near 2^31, near 2^32
EstimatorLengths ==
  { ToU32(0), ToU32(5), ToU32(17000), [ hi |-> 32768, lo |-> 0 ],
    [ hi |-> 65535, lo |-> 65535 ] }

EstimatorCounts == { ToU32(0), ToU32(1), ToU32(2) }

\* INT32_MAX
Int32Max == 2147483647

\* int32_t limits of the size estimator (it asserts max_bson_size # 0)
EstimatorBsonSizes == { 100, 8200, 0 - 20000, Int32Max }

EstimatorBatchSizes == { 0 - 1, 0, 1 }

\* what the estimator may return: max_bson_size + 16382 is evaluated in
\* int32_t (line 593); when it overflows the behaviour is undefined and
\* either answer may come out
WillOverflowOutcomes(len_so_far, document_len, n_documents_written, max_bson_size, max_write_batch_size) ==
  IF max_bson_size > Int32Max - MaxCmdOverhead
    THEN BOOLEAN
    ELSE { WillOverflowU32(len_so_far, document_len, n_documents_written,
                           max_bson_size + MaxCmdOverhead,
                           max_write_batch_size) }

\* one call of _mongoc_write_command_will_overflow; loc keeps the
\* arguments and the value returned
CallWillOverflow ==
  /\ pc = "estimate"
  /\ \E len_so_far \in EstimatorLengths, document_len \in EstimatorLengths,
        n_documents_written \in EstimatorCounts,
        max_bson_size \in EstimatorBsonSizes,
        max_write_batch_size \in EstimatorBatchSizes :
       \E ret \in WillOverflowOutcomes(len_so_far, document_len,
                                        n_documents_written, max_bson_size,
                                        max_write_batch_size) :
         loc' = [ fn |-> "will_overflow", calls |-> loc.calls + 1,
                  len_so_far |-> len_so_far, document_len |-> document_len,
                  n_documents_written |-> n_documents_written,
                  max_bson_size |-> max_bson_size,
                  max_write_batch_size |-> max_write_batch_size,
                  ret |-> ret ]
  /\ pc' = "estimated"
  /\ UNCHANGED << command, result, args, node, wire, hist, out >>

CallNext ==
  \/ CallMerge
  \/ CallMergeLegacy
  \/ CallWillOverflow

CallSpec == CallInit /\ [][CallNext]_vars

(***************************************************************************)
(* Properties                                                              *)
(***************************************************************************)

\* the frames and commands sent so far, in the order they were sent
Sent == { k \in 1..Len(wire) : TRUE }

RECURSIVE SentOps(_)
\* the buffer positions carried by the first k frames, concatenated
SentOps(k) == IF k = 0 THEN << >> ELSE SentOps(k - 1) \o wire[k].ops

\* an entry the command executor cannot fit in a command by itself
TooLargeAlone(entry) ==
  EmptyBsonLen + ElementLen(0, entry.len) >
    node.max_bson_obj_size + MaxCmdOverhead

\* the first buffer position whose entry is too large by itself, the
\* number of entries when there is none
FirstTooLarge ==
  LET S == { p \in 0..(command.n_documents - 1) :
               TooLargeAlone(command.documents[p + 1]) }
  IN IF S = {} THEN command.n_documents
     ELSE CHOOSE p \in S : \A q \in S : p <= q

\* C1: in an ordered buffer nothing at a position after a failed
\* operation is sent: every frame or command carries only positions up to
\* each operation the server had reported as failed when it was sent.
C1_OrderedStopsAtFirstFailure ==
  (pc # "new" /\ command.ordered) =>
    \A k \in Sent :
      ~wire[k].after_transport_failure =>
        \A p \in Range(wire[k].ops) :
          \A f \in wire[k].after_failed : p <= f

\* C2: a failed send or receive marks the accumulator failed, and no frame
\* or command is sent once a send or receive has failed.
C2_TransportFailureStops ==
  /\ hist.transport_failed => result.failed
  /\ \A k \in Sent : ~wire[k].after_transport_failure

\* C3: every index recorded in writeErrors or upserted is the caller's
\* offset plus the buffer position of the operation (for a frame of several
\* documents, of one of the frame's documents) the record is about.
C3_IndexIsGlobal ==
  pc # "new" =>
    /\ \A k \in 1..Len(result.writeErrors) :
         (result.writeErrors[k].index - args.offset)
            \in result.writeErrors[k].about
    /\ \A k \in 1..Len(result.upserted) :
         result.upserted[k].index = args.offset + result.upserted[k].id.op

\* C4: the command executor, once entered, reaches its exit.
C4_CommandExecutorTerminates ==
  (pc = "again") ~> (pc = "done")

\* C5: a command that was sent carries an operations array no longer than
\* the node's maxBsonObjectSize plus 16382 bytes and, when maxWriteBatchSize
\* is positive, no more operations than maxWriteBatchSize.
C5_SentCommandWithinLimits ==
  \A k \in Sent :
    wire[k].kind = "command" =>
      /\ BsonLen(wire[k].array) <= node.max_bson_obj_size + 16382
      /\ node.max_write_batch_size > 0 =>
           Len(wire[k].ops) <= node.max_write_batch_size

\* C5 witness: a buffer was split by size; the first command went out with
\* two operations in an array the size test had to measure.
C5_Witness ==
  /\ Len(wire) >= 2
  /\ wire[1].kind = "command" /\ ~wire[1].fast
  /\ Len(wire[1].ops) = 2
  /\ wire[2].kind = "command"

\* the reply of the k-th command is merged at the caller's offset plus the
\* number of entries sent in the commands before it
OffsetsFollow ==
  \A k \in Sent : wire[k].offset = args.offset + Len(SentOps(k - 1))

\* the executor split the buffer in several commands, all of them sent with
\* success, and has returned
SplitDone ==
  /\ pc = "done" /\ hist.path = "command"
  /\ Len(wire) >= 2
  /\ \A k \in Sent : wire[k].kind = "command" /\ wire[k].ok

\* C6 as stated: after a split whose sends all succeeded, the operations
\* arrays concatenated are the whole buffer in buffer order, and each reply
\* was merged at the caller's offset plus the entries sent before.
C6_SplitCoversBuffer ==
  SplitDone =>
    /\ SentOps(Len(wire)) = [ p \in 1..command.n_documents |-> p - 1 ]
    /\ OffsetsFollow

\* C6 amended: while every send succeeds, the operations arrays of the
\* commands sent so far, concatenated, are an initial part of the buffer in
\* buffer order, none omitted or repeated, that stops before the first
\* entry too large to fit in a command by itself; when the executor
\* returns they are all the entries before that entry (the whole buffer
\* when there is none); each reply was merged at the caller's offset plus
\* the entries sent before.
C6_SplitCoversPrefix ==
  ( /\ hist.path = "command"
    /\ \A k \in Sent : wire[k].ok ) =>
      LET sent == SentOps(Len(wire))
      IN /\ sent = [ p \in 1..Len(sent) |-> p - 1 ]
         /\ Len(sent) <= FirstTooLarge
         /\ pc = "done" => Len(sent) = FirstTooLarge
         /\ OffsetsFollow

\* C6 witness: a split of three entries in two or more commands, all sent
\* with success, the buffer holding no entry too large by itself.
C6_Witness ==
  /\ SplitDone
  /\ command.n_documents = 3
  /\ FirstTooLarge = command.n_documents
  /\ wire[2].offset > args.offset

\* C7: an unordered buffer on the command executor has every operation
\* attempted (sent, or rejected with a write error of its own) unless a
\* send or receive fails.
C7_UnorderedAttemptsAll ==
  (pc = "again" /\ ~command.ordered) ~>
     \/ hist.transport_failed
     \/ /\ pc = "done"
        /\ \A p \in 0..(command.n_documents - 1) :
             \/ p \in hist.attempted
             \/ \E k \in 1..Len(result.writeErrors) :
                  result.writeErrors[k].index = args.offset + p

\* C8: an operation rejected as too large has a write error with code 2 at
\* its global index.
C8_TooLargeIsWriteError ==
  pc # "new" =>
    \A p \in hist.too_large :
      \E k \in 1..Len(result.writeErrors) :
        /\ result.writeErrors[k].index = args.offset + p
        /\ result.writeErrors[k].code = 2

\* C9: for a node whose wire versions are known the legacy executor runs
\* exactly when the maximum wire version is below 2, or the minimum wire
\* version is 0 and the write concern is unacknowledged, and then every
\* frame sent is the legacy opcode of the buffer's kind; otherwise the
\* command executor runs and everything sent is a command.
C9_ExecutorChoice ==
  ( /\ node.max_wire_version >= 0
    /\ node.min_wire_version # -1
    /\ pc # "command" ) =>
      /\ hist.path \in { "legacy", "command" }
      /\ hist.path = "legacy" <=>
           \/ node.max_wire_version < 2
           \/ /\ node.min_wire_version = 0
              /\ args.write_concern = "unacked"
      /\ \A k \in Sent :
           wire[k].kind =
             IF hist.path = "command" THEN "command"
             ELSE CASE command.type = "insert" -> "OP_INSERT"
                    [] command.type = "update" -> "OP_UPDATE"
                    [] command.type = "delete" -> "OP_DELETE"

\* C9 witness: the command executor handed an unacknowledged write for a
\* node of wire versions 0..2 to the legacy executor, which has sent it.
C9_Witness ==
  /\ hist.path = "legacy"
  /\ node.max_wire_version >= 2
  /\ node.min_wire_version = 0
  /\ wire # << >>

\* nothing sent, the accumulator failed with an error, finalize false
RefusedOutcome ==
  /\ wire = << >>
  /\ result.failed
  /\ result.error # NoError
  /\ out.called => ~out.ret

\* C10 as stated: an invalid write concern, a failed preselection or an
\* empty buffer ends the execution with nothing sent, the accumulator
\* failed, an error recorded and finalize false.
C10_RefusedWithoutSending ==
  ( /\ pc = "done"
    /\ \/ args.write_concern = "invalid"
       \/ hist.preselect_failed
       \/ command.n_documents = 0 ) => RefusedOutcome

\* C10 amended: the same outcome for an invalid write concern, a failed
\* preselection, or an empty buffer when the node's wire versions are known
\* (neither is -1).
C10_RefusedWhenNodeKnown ==
  ( /\ pc = "done"
    /\ \/ args.write_concern = "invalid"
       \/ hist.preselect_failed
       \/ /\ command.n_documents = 0
          /\ node.max_wire_version # -1
          /\ node.min_wire_version # -1 ) => RefusedOutcome

\* C10 witness: an empty buffer was refused by the command executor and
\* finalize has returned false.
C10_Witness ==
  /\ pc = "done"
  /\ command.n_documents = 0
  /\ args.write_concern = "acked"
  /\ hist.path = "command"
  /\ out.called /\ ~out.ret
  /\ wire = << >>

\* C11: an update buffer holding an entry whose update document is not an
\* operator document and fails validation has nothing sent for it, and an
\* executor that ran for it leaves the accumulator failed with the BSON
\* invalid error.
C11_MalformedUpdateSendsNothing ==
  ( /\ command.type = MONGOC_WRITE_COMMAND_UPDATE
    /\ \E k \in 1..Len(command.documents) : command.documents[k].u = "bad" ) =>
      /\ wire = << >>
      /\ (hist.path # "none" /\ pc = "done") =>
           /\ result.failed
           /\ result.error = SetError("BSON", "BSON_INVALID")

\* C12: the keys of the documents container are 0, 1, ..., count-1 in
\* order, count being the number of operations the buffer holds.
C12_KeysAreDense ==
  /\ command.n_documents = Len(command.documents)
  /\ \A k \in 1..Len(command.documents) : command.documents[k].key = k - 1

\* C13: finalize returns true exactly when the accumulator is not failed
\* and holds neither a write concern error nor a write error.
C13_FinalizeReturn ==
  out.called =>
    ( out.ret <=> ( /\ ~result.failed
                    /\ result.writeConcernError = << >>
                    /\ result.writeErrors = << >> ) )

\* C13 witness: finalize returned false for an accumulator that is not
\* failed and holds no write error, only a write concern error.
C13_Witness ==
  /\ out.called /\ ~out.ret
  /\ ~result.failed
  /\ result.writeErrors = << >>
  /\ result.writeConcernError # << >>

\* C14: a call of finalize changes no field of the accumulator, and a call
\* after the first fills its document and error record as the call before
\* did and returns the same boolean.
C14_FinalizeIdempotent ==
  [][ out'.calls > out.calls =>
        /\ result' = result
        /\ out.calls > 0 =>
             /\ out'.ret = out.ret
             /\ out'.bson = out.bson
             /\ out'.error = out.error ]_vars

\* C14 witness: finalize was called twice on an accumulator that holds a
\* write error.
C14_Witness ==
  /\ out.calls = 2
  /\ result.writeErrors # << >>
  /\ out.error # result.error

\* C15: the stored write concern error is the content of the most recently
\* merged writeConcernError document and nothing else.
C15_OneWriteConcernError ==
  result.writeConcernError = hist.last_wce

\* finalize, once called, left nModified out of the document
NoModifiedCount == out.called => out.bson.nModified = << >>

\* C16 as stated: after a merge of a reply without an int32 nModified, by
\* either merge and for a buffer of any kind, omit_nModified is true and
\* the finalized document has no nModified.
C16_OmitAfterAnyReplyWithout ==
  result.lacking # {} => (result.omit_nModified /\ NoModifiedCount)

\* C16 amended: omit_nModified is true, and the finalized document has no
\* nModified, after any merge by the legacy merge and after a merge by the
\* command merge of a reply without an int32 nModified for an update
\* buffer; the command merge for an insert or a delete buffer never sets
\* it, and the finalized document has nModified whenever it is not set.
C16_OmitAfterLegacyOrUpdateReply ==
  /\ ( \/ "legacy" \in result.lacking
       \/ /\ "command" \in result.lacking
          /\ command.type = MONGOC_WRITE_COMMAND_UPDATE ) =>
         (result.omit_nModified /\ NoModifiedCount)
  /\ ( /\ "legacy" \notin result.lacking
       /\ command.type # MONGOC_WRITE_COMMAND_UPDATE ) =>
         ~result.omit_nModified
  /\ (out.called /\ ~result.omit_nModified) =>
         out.bson.nModified = << result.nModified >>

\* C16 witness: an update command's reply without nModified was merged
\* after one with nModified, and finalize left nModified out.
C16_Witness ==
  /\ command.type = MONGOC_WRITE_COMMAND_UPDATE
  /\ hist.path = "command"
  /\ Len(wire) >= 2
  /\ result.nModified > 0
  /\ result.lacking = { "command" }
  /\ out.called /\ out.bson.nModified = << >>

\* C17: no step of a merge, an executor or finalize resets omit_nModified.
C17_OmitIsKept ==
  [][ result.omit_nModified => result'.omit_nModified ]_vars

\* C17 witness: omit_nModified was set by the reply to the first update
\* command, a second reply that carried nModified was merged after it, and
\* finalize was called twice.
C17_Witness ==
  /\ command.type = MONGOC_WRITE_COMMAND_UPDATE
  /\ hist.path = "command"
  /\ Len(wire) = 2 /\ wire[1].ok /\ wire[2].ok
  /\ result.omit_nModified
  /\ result.nModified = 1
  /\ out.calls = 2

\* C18: an accumulator that holds a write error is failed, a transport
\* failure seen by an executor leaves it failed, and no step clears failed.
C18_FailedIsKept ==
  [][ /\ result.failed => result'.failed
      /\ result'.writeErrors # << >> => result'.failed
      /\ hist'.transport_failed => result'.failed ]_vars

\* C18 witness: a command reply with a write error was merged with no
\* transport failure, later commands were sent, and finalize has run.
C18_Witness ==
  /\ hist.path = "command"
  /\ Len(wire) >= 2
  /\ ~hist.transport_failed
  /\ result.writeErrors # << >>
  /\ result.failed
  /\ out.called

\* C19: an error record the executor has set is what finalize hands to the
\* caller; the first write error is written to the caller's record only
\* when the executor set none.
C19_ExecutorErrorIsKept ==
  (out.called /\ result.error # NoError) => out.error = result.error

\* C20: an unordered insert buffer executed with an acknowledged write
\* concern and no transport failure ends with nInserted plus the number of
\* write errors equal to the number of inserts attempted.
C20_InsertsAreConserved ==
  ( /\ pc = "done"
    /\ command.type = MONGOC_WRITE_COMMAND_INSERT
    /\ ~command.ordered
    /\ hist.path # "none"
    /\ args.write_concern = "acked"
    /\ ~hist.transport_failed ) =>
      result.nInserted + Len(result.writeErrors) = Cardinality(hist.attempted)

\* the buffer positions of the insert entries longer than the node's
\* maxBsonObjectSize
Oversize ==
  { p \in 0..(Len(command.documents) - 1) :
      command.documents[p + 1].len > node.max_bson_obj_size }

\* the legacy insert executor runs or ran with an acknowledged write
\* concern, no send or receive failed and no getLastError carried err
LegacyInsertAllAcknowledged ==
  /\ hist.path = "legacy"
  /\ command.type = MONGOC_WRITE_COMMAND_INSERT
  /\ args.write_concern = "acked"
  /\ ~hist.transport_failed
  /\ \A k \in 1..Len(result.writeErrors) : result.writeErrors[k].code = 2

\* C21: on the acknowledged legacy insert path every batch acknowledged
\* with no err and n = 0 adds its number of documents to nInserted: while
\* all batches succeed nInserted is the number of documents sent; at the
\* end it is the number of documents that are not oversize for an unordered
\* buffer, and the number of documents before the first oversize one for an
\* ordered buffer.
C21_LegacyInsertCount ==
  LegacyInsertAllAcknowledged =>
    /\ result.nInserted = Len(SentOps(Len(wire)))
    /\ (pc = "done" /\ ~command.ordered) =>
         result.nInserted = command.n_documents - Cardinality(Oversize)
    /\ (pc = "done" /\ command.ordered) =>
         result.nInserted =
           Cardinality({ p \in 0..(Len(command.documents) - 1) :
                           \A q \in Oversize : p < q })

\* C21 witness: an unordered buffer of three documents, one of them
\* oversize and skipped, the other two acknowledged in one batch.
C21_Witness ==
  /\ LegacyInsertAllAcknowledged
  /\ pc = "done" /\ ~command.ordered
  /\ Cardinality(Oversize) = 1
  /\ Len(wire) = 1 /\ Len(wire[1].ops) = 2
  /\ result.nInserted = 2

\* number of top-level _id fields in a field list
IdCount(fields) == Cardinality({ k \in 1..Len(fields) : fields[k] = "_id" })

\* C22: every entry of an insert buffer has exactly one _id field; a
\* document that came with an _id is stored with its fields unchanged, and
\* a document that came without one is stored as a generated _id followed
\* by the original fields in their original order.
C22_InsertEntriesHaveOneId ==
  command.type = MONGOC_WRITE_COMMAND_INSERT =>
    \A p \in 1..Len(command.documents) :
      LET e == command.documents[p]
          had == IdCount(e.orig)
      IN /\ IdCount(e.fields) = 1
         /\ had = 1 => e.fields = e.orig
         /\ had = 0 =>
              /\ e.fields[1] = "_id"
              /\ Tail(e.fields) = e.orig

C22_Witness ==
  /\ command.type = MONGOC_WRITE_COMMAND_INSERT
  /\ \E p, q \in 1..Len(command.documents) :
       /\ IdCount(command.documents[p].orig) = 0
       /\ Len(command.documents[p].orig) > 0
       /\ IdCount(command.documents[q].orig) = 1

\* the well-formed {index, _id} records of the reply of the last call
WellFormed(reply) ==
  { k \in 1..Len(reply.upserted.items) :
      /\ "index" \in DOMAIN reply.upserted.items[k]
      /\ "id" \in DOMAIN reply.upserted.items[k] }

\* C23: _mongoc_write_result_merge for an update buffer and a reply with
\* count n: with an upserted field of u well-formed records it appends u
\* records, adds u to nUpserted and max(0, n - u) to nMatched; without
\* one it adds n to nMatched; either way nUpserted + nMatched grows by at
\* least n.
C23_MergeUpdateCounts ==
  (loc.fn = "merge" /\ command.type = MONGOC_WRITE_COMMAND_UPDATE) =>
    LET n == Val(loc.reply.n, 0)
        u == Cardinality(WellFormed(loc.reply))
        b == loc.before
    IN /\ loc.reply.upserted.present =>
            /\ Len(result.upserted) = Len(b.upserted) + u
            /\ SubSeq(result.upserted, 1, Len(b.upserted)) = b.upserted
            /\ result.nUpserted = b.nUpserted + u
            /\ result.nMatched = b.nMatched + (IF n - u > 0 THEN n - u ELSE 0)
       /\ ~loc.reply.upserted.present =>
            /\ result.upserted = b.upserted
            /\ result.nUpserted = b.nUpserted
            /\ result.nMatched = b.nMatched + n
       /\ (result.nUpserted + result.nMatched) - (b.nUpserted + b.nMatched) >= n

\* a reply with more well-formed upserted records than its count, merged
\* into an accumulator that already counts something
C23_Witness ==
  /\ loc.fn = "merge"
  /\ command.type = MONGOC_WRITE_COMMAND_UPDATE
  /\ loc.reply.upserted.present
  /\ Cardinality(WellFormed(loc.reply)) = 1
  /\ Len(loc.reply.upserted.items) = 2
  /\ Val(loc.reply.n, 0) = 0
  /\ loc.before.nMatched > 0
  /\ result.nUpserted > loc.before.nUpserted

\* the upserted values a getLastError document carries: the scalar, or the
\* _id of every item of the array
UpsertedValues(reply) ==
  IF reply.upserted.shape = "scalar" THEN 1
  ELSE Cardinality({ k \in 1..Len(reply.upserted.items) :
                       "id" \in DOMAIN reply.upserted.items[k] })

\* C24: _mongoc_write_result_merge_legacy for an update buffer: a reply
\* with upserted (scalar or array) adds one record per upserted value and
\* n to nUpserted; a reply without upserted, with n = 1 and updatedExisting
\* false adds 1 to nUpserted and leaves nMatched; every other reply adds n
\* to nMatched and leaves nUpserted.
C24_MergeLegacyUpdateCounts ==
  (loc.fn = "merge_legacy" /\ command.type = MONGOC_WRITE_COMMAND_UPDATE) =>
    LET r == loc.reply
        n == Val(r.n, 0)
        b == loc.before
    IN /\ r.upserted.shape # "none" =>
            /\ Len(result.upserted) = Len(b.upserted) + UpsertedValues(r)
            /\ SubSeq(result.upserted, 1, Len(b.upserted)) = b.upserted
            /\ result.nUpserted = b.nUpserted + n
       /\ (r.upserted.shape = "none" /\ n = 1 /\ r.updatedExisting = << FALSE >>) =>
            /\ result.nUpserted = b.nUpserted + 1
            /\ result.nMatched = b.nMatched
       /\ (r.upserted.shape = "none" /\ ~(n = 1 /\ r.updatedExisting = << FALSE >>)) =>
            /\ result.nMatched = b.nMatched + n
            /\ result.nUpserted = b.nUpserted

\* a reply without upserted, with n = 2 and updatedExisting false, merged
\* after a reply that was counted as an upsert
C24_Witness ==
  /\ loc.fn = "merge_legacy"
  /\ command.type = MONGOC_WRITE_COMMAND_UPDATE
  /\ loc.reply.upserted.shape = "none"
  /\ loc.reply.n = << 2 >>
  /\ loc.reply.updatedExisting = << FALSE >>
  /\ loc.before.nUpserted = 1
  /\ loc.before.upserted = << >>
  /\ result.nMatched = 2

\* C25: the legacy update executor adds "upserted" to a getLastError
\* document only when the entry's upsert flag is true, the document's n is
\* greater than 0, it has no upserted and updatedExisting is false; the
\* value is the _id of the update document, else of the selector; the
\* document of an entry without the upsert flag, or without n, is merged
\* as it came.
C25_BackfillOnlyForCountedUpserts ==
  (hist.path = "legacy" /\ command.type = MONGOC_WRITE_COMMAND_UPDATE
     /\ Has(loc.merged)) =>
    LET gle == loc.gle[1]
        merged == loc.merged[1]
        entry == command.documents[loc.iter]
    IN /\ merged # gle =>
            /\ entry.upsert
            /\ Has(gle.n) /\ gle.n[1] > 0
            /\ gle.upserted.shape = "none"
            /\ gle.updatedExisting = << FALSE >>
            /\ merged.upserted.items[1].id.from = entry.id
       /\ (~entry.upsert \/ ~Has(gle.n)) => merged = gle

\* on small lengths and counts and positive limits the estimator on
\* uint32_t returns what the executors' estimator returns
WillOverflowAgrees ==
  (loc.fn = "will_overflow" /\ loc.len_so_far.hi = 0 /\ loc.document_len.hi = 0
     /\ loc.n_documents_written.hi = 0 /\ loc.max_bson_size > 0
     /\ loc.max_bson_size <= Int32Max - MaxCmdOverhead
     /\ loc.max_write_batch_size >= 0) =>
    loc.ret = mongoc_write_command_will_overflow(
                loc.len_so_far.lo, loc.document_len.lo,
                loc.n_documents_written.lo, loc.max_bson_size,
                loc.max_write_batch_size)

\* bytes_so_far + next_item_bytes > max_bson + 16382 over the integers.
\* The sum of two [hi, lo] values is taken without reducing hi; the limit
\* is split into a signed hi and a lo in 0..65535.
SumExceedsLimit(a, b, max_bson) ==
  LET sum_hi == a.hi + b.hi + ((a.lo + b.lo) \div Half)
      sum_lo == (a.lo + b.lo) % Half
      lim_hi == (max_bson \div Half) + (((max_bson % Half) + MaxCmdOverhead) \div Half)
      lim_lo == ((max_bson % Half) + MaxCmdOverhead) % Half
  IN sum_hi > lim_hi \/ (sum_hi = lim_hi /\ sum_lo > lim_lo)

UnackedLegacyKeepsCounts ==
  (hist.path = "legacy" /\ ~mongoc_write_concern_needs_gle(args.write_concern)) =>
    /\ hist.recv = 0
    /\ hist.merged_at = << >>
    /\ result.nInserted = 0 /\ result.nMatched = 0 /\ result.nModified = 0
    /\ result.nRemoved = 0 /\ result.nUpserted = 0
    /\ result.upserted = << >>

\* legacy update and delete with a write concern that asks for an
\* acknowledgement: one call of recv_gle per frame sent, the k-th
\* getLastError document (k = 0, 1, ...) merged at offset + k; the last
\* call is without a document when the transport failed in it
AckedLegacyOnePerFrame ==
  (hist.path = "legacy" /\ mongoc_write_concern_needs_gle(args.write_concern)
     /\ command.type \in { MONGOC_WRITE_COMMAND_UPDATE, MONGOC_WRITE_COMMAND_DELETE }) =>
    /\ hist.recv = Cardinality({ k \in 1..Len(wire) : wire[k].ok })
    /\ Len(hist.merged_at) <= hist.recv
    /\ Len(hist.merged_at) >= hist.recv - 1
    /\ ~hist.transport_failed => Len(hist.merged_at) = hist.recv
    /\ \A j \in 1..Len(hist.merged_at) : hist.merged_at[j] = args.offset + (j - 1)

\* C27: without acknowledgement the legacy executors never call recv_gle
\* and leave all counters, the upserted array and omit_nModified as they
\* were; with acknowledgement legacy update and delete receive one
\* getLastError per frame sent and merge the k-th at offset + k.
C27_UnackedChangesNothing ==
  /\ UnackedLegacyKeepsCounts
  /\ (hist.path = "legacy" /\ ~mongoc_write_concern_needs_gle(args.write_concern)) =>
       ~result.omit_nModified
  /\ AckedLegacyOnePerFrame

\* C27, amended: as above, but omit_nModified is set by exactly the
\* unacknowledged legacy inserts that met a document above
\* max_bson_obj_size, whose write error goes through
\* _mongoc_write_result_merge_legacy.
C27_UnackedChangesOnlyOmit ==
  /\ UnackedLegacyKeepsCounts
  /\ (hist.path = "legacy" /\ ~mongoc_write_concern_needs_gle(args.write_concern)) =>
       (result.omit_nModified <=> hist.too_large # {})
  /\ AckedLegacyOnePerFrame

\* an unacknowledged legacy insert that sent a frame and skipped a document
\* that is too large
C27_Witness ==
  /\ hist.path = "legacy"
  /\ ~mongoc_write_concern_needs_gle(args.write_concern)
  /\ command.type = MONGOC_WRITE_COMMAND_INSERT
  /\ pc = "done"
  /\ hist.too_large # {}
  /\ Len(wire) = 1 /\ wire[1].ok
  /\ result.omit_nModified
  /\ result.nInserted = 0

\* C28: an execution that finds max_wire_version = -1, or
\* min_wire_version = -1 inside the command executor, sends nothing and
\* leaves the accumulator as it was, failed flag and error record
\* included; a finalize after it returns true.
C28_UnknownNodeIsSilent ==
  (node.max_wire_version = -1 \/ node.min_wire_version = -1) =>
    /\ wire = << >>
    /\ result = mongoc_write_result_init
    /\ hist.path = "none"
    /\ out.called => out.ret

C28_Witness ==
  /\ node.max_wire_version = WRITE_COMMAND_WIRE_VERSION
  /\ node.min_wire_version = -1
  /\ command.n_documents > 0
  /\ out.called /\ out.ret

\* C29: every OP_INSERT frame of the legacy insert executor carries at
\* least one document, exactly one when allow_bulk_op_insert is false, and
\* has CONTINUE_ON_ERROR set if and only if the buffer is unordered.
C29_InsertFrames ==
  \A k \in 1..Len(wire) :
    wire[k].kind = "OP_INSERT" =>
      /\ Len(wire[k].ops) >= 1
      /\ ~command.flag => Len(wire[k].ops) = 1
      /\ ("CONTINUE_ON_ERROR" \in wire[k].flags) <=> ~command.ordered

\* an unordered buffer without allow_bulk_op_insert that went out in two
\* or more frames
C29_Witness ==
  /\ Len(wire) >= 2
  /\ \A k \in 1..Len(wire) : wire[k].kind = "OP_INSERT"
  /\ ~command.flag
  /\ ~command.ordered
  /\ node.max_msg_size = 1000
  /\ pc = "done"

\* C30: for every entry of a delete buffer, whatever its selector, the
\* limit the command path sends is 1 exactly when the OP_DELETE frame the
\* legacy path sends for it has SINGLE_REMOVE, and both follow the
\* buffer's multi flag: limit 0 and no flag when multi is true.
C30_DeleteMeansTheSame ==
  command.type = MONGOC_WRITE_COMMAND_DELETE =>
    /\ \A p \in 1..Len(command.documents) :
         command.documents[p].limit = (IF command.flag THEN 0 ELSE 1)
    /\ \A k \in 1..Len(wire) :
         /\ wire[k].kind = "command" =>
              \A j \in 1..Len(wire[k].array) :
                /\ wire[k].array[j].entry = command.documents[wire[k].ops[j] + 1]
                /\ wire[k].array[j].entry.limit = 1 <=> ~command.flag
         /\ wire[k].kind = "OP_DELETE" =>
              /\ "SINGLE_REMOVE" \in wire[k].flags <=> ~command.flag
              /\ "SINGLE_REMOVE" \in wire[k].flags <=>
                   command.documents[wire[k].ops[1] + 1].limit = 1

\* a buffer of two different selectors without multi, sent as two
\* OP_DELETE frames
C30_Witness ==
  /\ command.type = MONGOC_WRITE_COMMAND_DELETE
  /\ ~command.flag
  /\ Len(wire) = 2
  /\ wire[1].kind = "OP_DELETE" /\ wire[2].kind = "OP_DELETE"
  /\ command.documents[1].len # command.documents[2].len
  /\ "SINGLE_REMOVE" \in wire[2].flags

(***************************************************************************)
(* C31                                                                     *)
(***************************************************************************)
\* a pass of the legacy insert loop made progress: a frame was handed to
\* the transport or the position in the buffer moved on
InsertPassProgress == Len(wire') > Len(wire) \/ loc'.index > loc.index

\* C31: the legacy insert executor terminates for every non-empty buffer
\* and every pair of node limits max_bson_obj_size / max_msg_size: once it
\* stands at the label "again" it eventually returns, also when a document
\* within max_bson_obj_size does not fit into an empty frame under
\* max_msg_size.
C31_LegacyInsertTerminates == (pc = "insert_again") ~> (pc = "done")

\* C31, one pass: every pass from "again" sends at least one document or
\* consumes at least one document of the buffer.
C31_EveryPassProgresses == [][pc = "insert_again" => InsertPassProgress]_vars

(***************************************************************************)
(* C32                                                                     *)
(***************************************************************************)
\* no call of _mongoc_write_result_merge_legacy has touched the accumulator
OnlyMergeCommand(res) == "legacy" \notin res.lacking

\* C32: after any sequence of calls of the two merges on one accumulator,
\* upsert_append_count is the number of records of the upserted array and
\* the records' keys are 0, 1, ..., upsert_append_count - 1 in order; when
\* only the command merge was called, nUpserted is that number too.
C32_UpsertedIsDense ==
  /\ result.upsert_append_count = Len(result.upserted)
  /\ \A k \in 1..Len(result.upserted) : result.upserted[k].key = k - 1
  /\ OnlyMergeCommand(result) => result.nUpserted = Len(result.upserted)

\* a command merge has appended to the upserted array, and a legacy merge
\* called after it on the same accumulator has appended more
C32_Witness ==
  /\ pc = "merge"
  /\ loc.fn = "merge_legacy"
  /\ OnlyMergeCommand(loc.before)
  /\ loc.before.nUpserted >= 1
  /\ Len(loc.before.upserted) = loc.before.nUpserted
  /\ Len(result.upserted) > Len(loc.before.upserted)
  /\ result.nUpserted # Len(result.upserted)

=============================================================================
